---- MODULE Spec2Model ----
(***************************************************************************)
(* A model of models.py: the LightLIF recurrent cell (zero_state and       *)
(* __call__), SpikeFunction with its custom gradient, pseudo_derivative,   *)
(* exp_convolve, shift_by_one_time_step and check_gradients.               *)
(*                                                                         *)
(* Real numbers are exact rationals <<numerator, denominator>> in lowest   *)
(* terms with a positive denominator.  A tensor of shape (a, b) is a       *)
(* sequence of a sequences of length b.                                    *)
(***************************************************************************)
EXTENDS Integers, Sequences, FiniteSets

VARIABLES
    cfg,          \* LightLIF attributes set by __init__: _decay, thr, dt, dampening_factor, stop_z_gradients
    w_in_var,     \* self.w_in_var  (n_in x n_rec)
    w_rec_var,    \* self.w_rec_var (n_rec x n_rec), as stored
    state,        \* the LightLIFStateTuple (v, z) the driver holds
    inputs,       \* the inputs argument of the last __call__ (<<>> before the first)
    outputs,      \* the [new_z, new_v] list returned by the last __call__
    steps,        \* number of __call__ invocations so far
    fired,        \* the state handed to the last __call__ held a spike
    autapse,      \* ... and that spiking neuron's stored self-weight was non-zero
    tensor,       \* argument of exp_convolve / shift_by_one_time_step, shape (trial, time, neuron)
    decay_arg,    \* exp_convolve's decay argument
    initializer,  \* shift_by_one_time_step's initializer argument, <<>> for None
    result,       \* what the call returned
    pc,           \* "idle" before the call, then "shift" or "exp": the function that returned
    v_scaled,     \* SpikeFunction's input tensor (a vector)
    dampening_factor, \* SpikeFunction's second input
    dy,           \* the upstream gradient handed to grad
    z_,           \* SpikeFunction's forward result
    grads,        \* what grad(dy) returned
    var_list,     \* check_gradients: names of the variables
    eprop_grads_np,
    true_grads_np,
    k_v,          \* the loop index of check_gradients
    report,       \* what check_gradients printed, one record per variable compared
    outcome       \* "running", "returned", "ValueError" or "IndexError"

lifVars == <<cfg, w_in_var, w_rec_var, state, inputs, outputs, steps, fired, autapse>>
seqVars == <<tensor, decay_arg, initializer, result, pc>>
spikeVars == <<v_scaled, dampening_factor, dy, z_, grads>>
checkVars == <<var_list, eprop_grads_np, true_grads_np, k_v, report, outcome>>
vars == <<lifVars, seqVars, spikeVars, checkVars>>

----------------------------------------------------------------------------
(* Exact real arithmetic *)

RECURSIVE Gcd(_, _)
Gcd(a, b) == IF b = 0 THEN a ELSE Gcd(b, a % b)

IAbs(n) == IF n < 0 THEN -n ELSE n

\* the rational n/d (d # 0) in lowest terms, denominator positive
R(n, d) ==
    LET g == Gcd(IAbs(n), IAbs(d))
        s == IF d < 0 THEN -1 ELSE 1
    IN  <<(s * n) \div g, (s * d) \div g>>

Zero == R(0, 1)
One == R(1, 1)

RAdd(a, b) == R(a[1] * b[2] + b[1] * a[2], a[2] * b[2])
RSub(a, b) == R(a[1] * b[2] - b[1] * a[2], a[2] * b[2])
RMul(a, b) == R(a[1] * b[1], a[2] * b[2])
RDiv(a, b) == R(a[1] * b[2], a[2] * b[1])
RLess(a, b) == a[1] * b[2] < b[1] * a[2]
RAbs(a) == <<IAbs(a[1]), a[2]>>
RMax(a, b) == IF RLess(a, b) THEN b ELSE a

RECURSIVE RSum(_, _)
\* f[1] + ... + f[n]
RSum(f, n) == IF n = 0 THEN Zero ELSE RAdd(RSum(f, n - 1), f[n])

----------------------------------------------------------------------------
(* LightLIF *)

\* widths of the layer under study and the batch size the driver uses
n_in == 1
n_rec == 2
batch_size == 1
\* cap on the number of steps of one sequence
MaxSteps == 2

DecaySet == {R(1, 2), R(3, 4)}
ThrSet == {R(1, 2), R(-1, 2)}
DtSet == {One, R(2, 1)}
DampSet == {R(3, 10)}
WeightSet == {Zero, R(2, 1)}
InputValues == {R(-1, 1), One}

Matrices(rows, cols, S) == [1..rows -> [1..cols -> S]]

\* tf.zeros(shape=(batch_size, n))
zeros(b, n) == [i \in 1..b |-> [j \in 1..n |-> Zero]]

zero_state(b) == [v |-> zeros(b, n_rec), z |-> zeros(b, n_rec)]

\* np.diag(np.ones(n_rec, dtype=bool))
recurrent_disconnect_mask == [i \in 1..n_rec |-> [j \in 1..n_rec |-> i = j]]

\* tf.identity(self.w_in_var): evaluated from the variable whenever the graph runs
w_in_val == w_in_var

\* tf.where(mask, zeros_like(w_rec_var), w_rec_var): evaluated from the variable
\* whenever the graph runs
w_rec_val_nomask == w_rec_var
w_rec_val ==
    [i \in 1..n_rec |-> [j \in 1..n_rec |->
        IF recurrent_disconnect_mask[i][j] THEN Zero ELSE w_rec_var[i][j]]]

\* tf.matmul(a, w) for a of shape (b, rows) and w of shape (rows, cols)
matmul(a, w, rows, cols) ==
    [b \in 1..Len(a) |-> [j \in 1..cols |->
        RSum([i \in 1..rows |-> RMul(a[b][i], w[i][j])], rows)]]

\* tf.stop_gradient: the forward value is its argument
stop_gradient(x) == x

\* tf.cast(tf.greater(v_scaled, 0.), tf.float32), elementwise on one entry
HeavisideGe(x) == IF RLess(x, Zero) THEN Zero ELSE One
Heaviside(x) == IF RLess(Zero, x) THEN One ELSE Zero

\* SpikeFunction's forward value on a (batch, n) tensor
SpikeFunction(vs) == [b \in 1..Len(vs) |-> [j \in 1..Len(vs[b]) |-> Heaviside(vs[b][j])]]

\* new_v = decay * v + (1 - decay) * i_t - I_reset, one entry
NewVHardReset(decay, v, i_t, I_reset) ==
    IF I_reset = Zero THEN RAdd(RMul(decay, v), RMul(RSub(One, decay), i_t)) ELSE Zero
NewV(decay, v, i_t, I_reset) ==
    RSub(RAdd(RMul(decay, v), RMul(RSub(One, decay), i_t)), I_reset)

\* v_scaled = (new_v - thr) / thr, one entry
VScaledFlipped(new_v, thr) == RDiv(RSub(thr, new_v), thr)
VScaled(new_v, thr) == RDiv(RSub(new_v, thr), thr)

\* LightLIF.__call__(inputs, state): the returned outputs and new state
LightLIF_call(x, st) ==
    LET thr == cfg.thr
        z == IF cfg.stop_z_gradients THEN stop_gradient(st.z) ELSE st.z
        v == st.v
        decay == cfg.decay
        B == Len(x)
        inDrive == matmul(x, w_in_val, n_in, n_rec)
        recDrive == matmul(z, w_rec_val, n_rec, n_rec)
        i_t == [b \in 1..B |-> [j \in 1..n_rec |-> RAdd(inDrive[b][j], recDrive[b][j])]]
        I_reset == [b \in 1..B |-> [j \in 1..n_rec |-> RMul(RMul(z[b][j], thr), cfg.dt)]]
        new_v == [b \in 1..B |-> [j \in 1..n_rec |->
                     NewV(decay, v[b][j], i_t[b][j], I_reset[b][j])]]
        vs == [b \in 1..B |-> [j \in 1..n_rec |-> VScaled(new_v[b][j], thr)]]
        spikes == SpikeFunction(vs)
        new_z == [b \in 1..B |-> [j \in 1..n_rec |->
                     RDiv(RMul(spikes[b][j], One), cfg.dt)]]
    IN  [outputs |-> <<new_z, new_v>>, new_state |-> [v |-> new_v, z |-> new_z]]

Configs(decays, thrs, dts) ==
    [decay : decays, thr : thrs, dt : dts, dampening_factor : DampSet,
     stop_z_gradients : BOOLEAN]

\* the other components' variables, idle while the cell runs
SeqIdle ==
    tensor = <<>> /\ decay_arg = Zero /\ initializer = <<>> /\ result = <<>> /\ pc = "off"
SpikeIdle == v_scaled = <<>> /\ dampening_factor = Zero /\ dy = <<>> /\ z_ = <<>> /\ grads = <<>>
CheckIdle ==
    /\ var_list = <<>> /\ eprop_grads_np = <<>> /\ true_grads_np = <<>>
    /\ k_v = 0 /\ report = <<>> /\ outcome = "off"

LIFIdle ==
    /\ cfg = [decay |-> Zero] /\ w_in_var = <<>> /\ w_rec_var = <<>> /\ state = <<>>
    /\ inputs = <<>> /\ outputs = <<>> /\ steps = 0 /\ fired = FALSE /\ autapse = FALSE

\* after LightLIF.__init__ and zero_state
InitLIF(decays, thrs, dts) ==
    /\ cfg \in Configs(decays, thrs, dts)
    /\ w_in_var \in Matrices(n_in, n_rec, WeightSet)
    /\ w_rec_var \in Matrices(n_rec, n_rec, WeightSet)
    /\ state = zero_state(batch_size)
    /\ inputs = <<>>
    /\ outputs = <<>>
    /\ steps = 0
    /\ fired = FALSE
    /\ autapse = FALSE
    /\ SeqIdle /\ SpikeIdle /\ CheckIdle

Init == InitLIF(DecaySet, ThrSet, DtSet)

\* one time step: the driver calls the cell with x and keeps the returned state
Call(x) ==
    /\ steps < MaxSteps
    /\ LET r == LightLIF_call(x, state)
       IN  /\ outputs' = r.outputs
           /\ state' = r.new_state
    /\ inputs' = x
    /\ steps' = steps + 1
    /\ fired' = \E b \in 1..batch_size, j \in 1..n_rec : state.z[b][j] # Zero
    /\ autapse' = \E b \in 1..batch_size, j \in 1..n_rec :
                      state.z[b][j] # Zero /\ w_rec_var[j][j] # Zero
    /\ UNCHANGED <<cfg, w_in_var, w_rec_var, seqVars, spikeVars, checkVars>>

\* the training procedure assigns an entry of the stored recurrent matrix
AssignRec ==
    \E i \in 1..n_rec, j \in 1..n_rec, w \in WeightSet :
        /\ w_rec_var[i][j] # w
        /\ w_rec_var' = [w_rec_var EXCEPT ![i][j] = w]
        /\ UNCHANGED <<cfg, w_in_var, state, inputs, outputs, steps, fired, autapse,
                       seqVars, spikeVars, checkVars>>

Step == \E x \in Matrices(batch_size, n_in, InputValues) : Call(x)

Next == Step \/ AssignRec

Spec == Init /\ [][Next]_vars

\* the cell at rest: any valid configuration, all-zero input at every step
RestDecaySet == {R(1, 2), R(3, 4), R(1, 10)}
RestThrSet == {R(1, 2), One, R(-1, 2), R(-2, 1)}
RestDtSet == {One, R(2, 1), R(1, 2)}

InitRest == InitLIF(RestDecaySet, RestThrSet, RestDtSet)

StepZero == Call(zeros(batch_size, n_in))

NextRest == StepZero \/ AssignRec

SpecRest == InitRest /\ [][NextRest]_vars

----------------------------------------------------------------------------
(* Properties of the cell *)

Entries == (1..batch_size) \X (1..n_rec)

\* C1: from zero_state and under all-zero input, with any valid configuration and
\* any (even rewritten) weights, every state reached has voltage 0 and spike 0 in
\* every entry, and so do the returned outputs.
C1_RestingFixedPoint ==
    /\ \A e \in Entries : state.v[e[1]][e[2]] = Zero /\ state.z[e[1]][e[2]] = Zero
    /\ steps > 0 => outputs = <<zeros(batch_size, n_rec), zeros(batch_size, n_rec)>>

C1_Witness ==
    /\ steps >= 2
    /\ inputs = zeros(batch_size, n_in)
    /\ cfg.thr = R(-1, 2)
    /\ w_in_var[1][1] # Zero
    /\ w_rec_var[1][2] # Zero
    /\ state = zero_state(batch_size)

\* the total drive of neuron j in batch row b when the cell is called with x in
\* the current state, own spike left out
DriveWithoutSelf(x, b, j) ==
    RAdd(RSum([i \in 1..n_in |-> RMul(x[b][i], w_in_var[i][j])], n_in),
         RSum([i \in 1..n_rec |->
                  IF i = j THEN Zero ELSE RMul(state.z[b][i], w_rec_var[i][j])], n_rec))

\* C2: at every step, whatever was written to the stored recurrent matrix before
\* it, the matrix the step reads has diagonal 0 and the stored off-diagonal
\* entries, and the new voltage of a neuron gets no contribution from its own
\* previous spike through the drive.
C2_DiagonalZeroAtEveryRead ==
    [][steps' = steps + 1 =>
        /\ \A i \in 1..n_rec, j \in 1..n_rec :
              w_rec_val[i][j] = IF i = j THEN Zero ELSE w_rec_var[i][j]
        /\ \A e \in Entries :
              state'.v[e[1]][e[2]] =
                  RSub(RAdd(RMul(cfg.decay, state.v[e[1]][e[2]]),
                            RMul(RSub(One, cfg.decay), DriveWithoutSelf(inputs', e[1], e[2]))),
                       RMul(RMul(state.z[e[1]][e[2]], cfg.thr), cfg.dt))]_vars

C2_Witness == steps >= 1 /\ autapse

\* the total drive as the update equation states it: input . inputWeights +
\* z_prev . recurrentWeights, with recurrentWeights the matrix the step reads
Drive(x, b, j) ==
    RAdd(RSum([i \in 1..n_in |-> RMul(x[b][i], w_in_val[i][j])], n_in),
         RSum([i \in 1..n_rec |-> RMul(state.z[b][i], w_rec_val[i][j])], n_rec))

\* C4: one step gives v_next = decay * v + (1 - decay) * drive - z_prev * thr * dt,
\* with z_prev the spike of the state handed in (a subtractive reset), and the
\* returned state holds exactly the returned (v_next, z_next).
C4_VoltageUpdate ==
    [][steps' = steps + 1 =>
        /\ \A e \in Entries :
              state'.v[e[1]][e[2]] =
                  RSub(RAdd(RMul(cfg.decay, state.v[e[1]][e[2]]),
                            RMul(RSub(One, cfg.decay), Drive(inputs', e[1], e[2]))),
                       RMul(RMul(state.z[e[1]][e[2]], cfg.thr), cfg.dt))
        /\ outputs' = <<state'.z, state'.v>>]_vars

\* a step has been taken from a state that held a spike, and the voltage it left
\* is not the baseline
C4_Witness ==
    /\ steps >= 2
    /\ fired
    /\ \E e \in Entries : state.v[e[1]][e[2]] # Zero

\* C5: every spike entry is 0 or 1/dt, and it is 1/dt exactly when
\* (v - thr) / thr > 0 for the voltage of the same step; a scaled voltage of
\* exactly 0 gives no spike.
C5_StrictThreshold ==
    \A e \in Entries :
        LET v == state.v[e[1]][e[2]]
            z == state.z[e[1]][e[2]]
            scaled == RDiv(RSub(v, cfg.thr), cfg.thr)
        IN  /\ z \in {Zero, RDiv(One, cfg.dt)}
            /\ (z = RDiv(One, cfg.dt)) <=> RLess(Zero, scaled)

\* a step left one neuron exactly at threshold (no spike) and the other spiking
C5_Witness ==
    /\ steps >= 1
    /\ \E e \in Entries : state.v[e[1]][e[2]] = cfg.thr /\ state.z[e[1]][e[2]] = Zero
    /\ \E e \in Entries : state.z[e[1]][e[2]] = RDiv(One, cfg.dt)

----------------------------------------------------------------------------
(* exp_convolve and shift_by_one_time_step *)

\* longest time axis of the tensors tried
MaxTime == 2

TrialSizes == {1, 2}
NeuronSizes == {1, 2}
TensorValues == {Zero, One}
ConvolveDecays == {Zero, R(1, 4), R(1, 2)}

\* the tensors of shape (trial, time, neuron)
Tensors(B, T, F) == [1..B -> [1..T -> [1..F -> TensorValues]]]

\* tf.transpose(x, perm=[1, 0, 2]): swaps the first two axes (both non-empty)
transpose(x) == [i \in 1..Len(x[1]) |-> [j \in 1..Len(x) |-> x[j][i]]]

\* tf.zeros_like of a (trial, neuron) slice
zeros_like(slice) == [b \in 1..Len(slice) |-> [f \in 1..Len(slice[b]) |-> Zero]]

\* the scan's step function: lambda a, x: a * decay + (1 - decay) * x, on slices
ScanFnSwapped(a, x, decay) ==
    [b \in 1..Len(x) |-> [f \in 1..Len(x[b]) |->
        RAdd(RMul(a[b][f], RSub(One, decay)), RMul(decay, x[b][f]))]]
ScanFn(a, x, decay) ==
    [b \in 1..Len(x) |-> [f \in 1..Len(x[b]) |->
        RAdd(RMul(a[b][f], decay), RMul(RSub(One, decay), x[b][f]))]]

RECURSIVE scan(_, _, _)
\* tf.scan(fn, elems, initializer): out[1] = fn(initializer, elems[1]),
\* out[t] = fn(out[t-1], elems[t])
scan(elems, init, decay) ==
    IF elems = <<>> THEN <<>>
    ELSE LET front == scan(SubSeq(elems, 1, Len(elems) - 1), init, decay)
             a == IF front = <<>> THEN init ELSE front[Len(front)]
         IN  Append(front, ScanFn(a, elems[Len(elems)], decay))

exp_convolve(t, decay) ==
    LET tensor_time_major == transpose(t)
        init == zeros_like(tensor_time_major[1])
        filtered_tensor == scan(tensor_time_major, init, decay)
    IN  transpose(filtered_tensor)

\* tensor_time_major[:-1]
DropFirst(tm) == SubSeq(tm, 2, Len(tm))
DropLast(tm) == SubSeq(tm, 1, Len(tm) - 1)

shift_by_one_time_step(t, init_arg) ==
    LET tensor_time_major == transpose(t)
        init == IF init_arg = <<>> THEN zeros_like(tensor_time_major[1]) ELSE init_arg
        shifted_tensor == <<init>> \o DropLast(tensor_time_major)
    IN  transpose(shifted_tensor)

InitSeq ==
    /\ \E B \in TrialSizes, T \in 1..MaxTime, F \in NeuronSizes : tensor \in Tensors(B, T, F)
    /\ decay_arg = Zero
    /\ initializer = <<>>
    /\ result = <<>>
    /\ pc = "idle"
    /\ LIFIdle /\ SpikeIdle /\ CheckIdle

\* the driver filters the tensor
ExpConvolve ==
    /\ pc = "idle"
    /\ \E d \in ConvolveDecays :
          /\ decay_arg' = d
          /\ result' = exp_convolve(tensor, d)
    /\ pc' = "exp"
    /\ UNCHANGED <<tensor, initializer, lifVars, spikeVars, checkVars>>

\* the driver shifts the tensor, with the default initializer
ShiftDefault ==
    /\ pc = "idle"
    /\ initializer' = <<>>
    /\ result' = shift_by_one_time_step(tensor, <<>>)
    /\ pc' = "shift"
    /\ UNCHANGED <<tensor, decay_arg, lifVars, spikeVars, checkVars>>

\* the driver shifts the tensor, with an initializer shaped like one time slice
ShiftWith ==
    /\ pc = "idle"
    /\ \E init \in [1..Len(tensor) -> [1..Len(tensor[1][1]) -> TensorValues]] :
          /\ initializer' = init
          /\ result' = shift_by_one_time_step(tensor, init)
    /\ pc' = "shift"
    /\ UNCHANGED <<tensor, decay_arg, lifVars, spikeVars, checkVars>>

NextSeq == ExpConvolve \/ ShiftDefault \/ ShiftWith

SpecSeq == InitSeq /\ [][NextSeq]_vars

SameShape(x, y) ==
    /\ Len(x) = Len(y)
    /\ \A b \in 1..Len(x) :
          /\ Len(x[b]) = Len(y[b])
          /\ \A t \in 1..Len(x[b]) : Len(x[b][t]) = Len(y[b][t])

\* C6: the shifted tensor has the input's shape; its first time slice is the
\* initializer (zeros by default) and its slice t is the input's slice t-1, so
\* the input's last slice is at no position of the output.
C6_TimeShift ==
    pc = "shift" =>
        /\ SameShape(result, tensor)
        /\ \A b \in 1..Len(tensor) :
              /\ \A f \in 1..Len(tensor[b][1]) :
                    result[b][1][f] = IF initializer = <<>> THEN Zero ELSE initializer[b][f]
              /\ \A t \in 2..Len(tensor[b]) : result[b][t] = tensor[b][t - 1]

\* a shift with a given non-zero initializer of a tensor of several trials,
\* neurons and time steps whose last slice differs from every slice of the output
C6_Witness ==
    /\ pc = "shift"
    /\ Len(tensor) = 2 /\ Len(tensor[1]) >= 2 /\ Len(tensor[1][1]) = 2
    /\ initializer # <<>>
    /\ initializer # zeros_like(initializer)
    /\ \E b \in 1..Len(tensor) : \A t \in 1..Len(result[b]) :
          result[b][t] # tensor[b][Len(tensor[b])]

\* C7: the filtered tensor has the input's shape; per trial and neuron,
\* filtered[0] = (1 - decay) * raw[0] and
\* filtered[t] = decay * filtered[t-1] + (1 - decay) * raw[t].
C7_ExponentialTrace ==
    pc = "exp" =>
        /\ SameShape(result, tensor)
        /\ \A b \in 1..Len(tensor) : \A f \in 1..Len(tensor[b][1]) :
              /\ result[b][1][f] = RMul(RSub(One, decay_arg), tensor[b][1][f])
              /\ \A t \in 2..Len(tensor[b]) :
                    result[b][t][f] =
                        RAdd(RMul(decay_arg, result[b][t - 1][f]),
                             RMul(RSub(One, decay_arg), tensor[b][t][f]))

\* a filtered tensor of two trials and two neurons that differ from each other,
\* at least two time steps, a decay that is neither 0 nor 1/2
C7_Witness ==
    /\ pc = "exp"
    /\ decay_arg = R(1, 4)
    /\ Len(tensor) = 2 /\ Len(tensor[1]) >= 2 /\ Len(tensor[1][1]) = 2
    /\ tensor[1] # tensor[2]
    /\ result[1][2][1] # result[1][2][2]
    /\ result[1][2][1] # Zero

----------------------------------------------------------------------------
(* SpikeFunction and its custom gradient *)

ScaledVoltages == {R(-2, 1), R(-1, 1), R(-1, 2), Zero, R(1, 4), R(1, 2), One, R(2, 1)}
UpstreamGrads == {R(-1, 1), One, R(2, 1)}
DampeningFactors == {R(3, 10), One}

\* tf.maximum(1 - tf.abs(v_scaled), 0) * dampening_factor, on a (batch, n) tensor
pseudo_derivative_noabs(vs, damp) ==
    [b \in 1..Len(vs) |-> [j \in 1..Len(vs[b]) |->
        RMul(RMax(RSub(One, vs[b][j]), Zero), damp)]]
pseudo_derivative(vs, damp) ==
    [b \in 1..Len(vs) |-> [j \in 1..Len(vs[b]) |->
        RMul(RMax(RSub(One, RAbs(vs[b][j])), Zero), damp)]]

\* SpikeFunction.grad(dy): [dE_dv_scaled, tf.zeros_like(dampening_factor)]
SpikeFunction_grad(vs, damp, upstream) ==
    LET dE_dz == upstream
        dz_dv_scaled == pseudo_derivative(vs, damp)
        dE_dv_scaled == [b \in 1..Len(vs) |-> [j \in 1..Len(vs[b]) |->
                            RMul(dE_dz[b][j], dz_dv_scaled[b][j])]]
    IN  <<dE_dv_scaled, Zero>>

InitSpike ==
    /\ v_scaled \in Matrices(1, 2, ScaledVoltages)
    /\ dampening_factor \in DampeningFactors
    /\ dy = <<>>
    /\ z_ = <<>>
    /\ grads = <<>>
    /\ LIFIdle /\ SeqIdle /\ CheckIdle

\* the forward pass: SpikeFunction(v_scaled, dampening_factor)
Forward ==
    /\ z_ = <<>>
    /\ z_' = SpikeFunction(v_scaled)
    /\ UNCHANGED <<v_scaled, dampening_factor, dy, grads, lifVars, seqVars, checkVars>>

\* the backward pass: the gradient machinery calls grad with an upstream gradient
Backward ==
    /\ z_ # <<>>
    /\ grads = <<>>
    /\ \E g \in Matrices(1, 2, UpstreamGrads) :
          /\ dy' = g
          /\ grads' = SpikeFunction_grad(v_scaled, dampening_factor, g)
    /\ UNCHANGED <<v_scaled, dampening_factor, z_, lifVars, seqVars, checkVars>>

NextSpike == Forward \/ Backward

SpecSpike == InitSpike /\ [][NextSpike]_vars

\* C10: the gradient handed back for v_scaled is dy * max(1 - |v_scaled|, 0) *
\* dampening_factor: zero when |v_scaled| >= 1, dy * dampening_factor at
\* v_scaled = 0, the same for v_scaled and -v_scaled; the gradient handed back
\* for the dampening factor is zero.
C10_BackwardRule ==
    grads # <<>> =>
        /\ Len(grads) = 2
        /\ grads[2] = Zero
        /\ \A j \in 1..2 :
              LET x == v_scaled[1][j]
                  g == grads[1][1][j]
                  magnitude == IF RLess(x, Zero) THEN RSub(Zero, x) ELSE x
              IN  /\ ~RLess(magnitude, One) => g = Zero
                  /\ x = Zero => g = RMul(dy[1][j], dampening_factor)
                  /\ RLess(magnitude, One) =>
                        g = RMul(RMul(dy[1][j], RSub(One, magnitude)), dampening_factor)
        /\ (v_scaled[1][1] = RSub(Zero, v_scaled[1][2]) /\ dy[1][1] = dy[1][2])
              => grads[1][1][1] = grads[1][1][2]

\* a backward pass over a negative scaled voltage inside the tent, next to its
\* mirror image
C10_Witness ==
    /\ grads # <<>>
    /\ v_scaled = <<<<R(-1, 2), R(1, 2)>>>>
    /\ dy[1][1] = dy[1][2]
    /\ grads[1][1][1] # Zero

----------------------------------------------------------------------------
(* check_gradients *)

\* longest var_list / gradient list tried
MaxParams == 2

\* the absolute-difference tolerance 1e-4
Tol == R(1, 10000)

G(a, b, c, d) == <<<<R(a, 20000), R(b, 20000)>>, <<R(c, 20000), R(d, 20000)>>>>

\* 2 x 2 gradient arrays, entries in multiples of 5e-5
EpropArrays == {G(0, 0, 0, 0), G(1, 0, 0, 0), G(0, 0, 2, 0), G(0, 0, 0, 4)}
TrueArrays == {G(0, 0, 0, 0), G(0, 0, 0, 4)}

Lists(S) == UNION {[1..n -> S] : n \in 0..MaxParams}

Min(a, b) == IF a < b THEN a ELSE b

\* diff = eprop_grad - true_grad
Diff(e, t) == [i \in 1..Len(e) |-> [j \in 1..Len(e[i]) |-> RSub(e[i][j], t[i][j])]]

\* np.abs(diff) < 1e-4, one entry
WithinTolLe(d) == ~RLess(Tol, RAbs(d))
WithinTol(d) == RLess(RAbs(d), Tol)

is_correct(diff) == [i \in 1..Len(diff) |-> [j \in 1..Len(diff[i]) |-> WithinTol(diff[i][j])]]

\* np.all
np_all(a) == \A i \in 1..Len(a) : \A j \in 1..Len(a[i]) : a[i][j]

\* the (row, column) pairs of an array in row-major order, counted from 0
Indices(a) ==
    LET cols == Len(a[1])
    IN  [n \in 1..(Len(a) * cols) |-> <<(n - 1) \div cols, (n - 1) % cols>>]

\* list(zip(*np.where(1 - is_correct)))
mismatch_indices(ok) == SelectSeq(Indices(ok), LAMBDA p : ~ok[p[1] + 1][p[2] + 1])

\* s[:5]
First5(s) == SubSeq(s, 1, Min(5, Len(s)))

\* what the loop body prints for variable v
Printed(v, e, t) ==
    LET diff == Diff(e, t)
        ok == is_correct(diff)
        idx == First5(mismatch_indices(ok))
    IN  IF np_all(ok)
        THEN [name |-> v, correct |-> TRUE, mismatch |-> <<>>, diff_vals |-> <<>>]
        ELSE [name |-> v, correct |-> FALSE, mismatch |-> idx,
              diff_vals |-> [n \in 1..Len(idx) |-> diff[idx[n][1] + 1][idx[n][2] + 1]]]

\* the else branch ends in raise ValueError()
RaisesNever(all_ok) == FALSE
Raises(all_ok) == ~all_ok

\* for k_v, v in enumerate(var_list): the number of iterations
LoopLengthZip == Min(Len(var_list), Min(Len(eprop_grads_np), Len(true_grads_np)))
LoopLength == Len(var_list)

InitCheck ==
    /\ \E n \in 0..MaxParams : var_list = [k \in 1..n |-> k]
    /\ eprop_grads_np \in Lists(EpropArrays)
    /\ true_grads_np \in Lists(TrueArrays)
    /\ k_v = 0
    /\ report = <<>>
    /\ outcome = "running"
    /\ LIFIdle /\ SeqIdle /\ SpikeIdle

\* one iteration of the loop on a variable both lists have a gradient for
Compare ==
    /\ outcome = "running"
    /\ k_v < LoopLength
    /\ k_v < Len(eprop_grads_np)
    /\ k_v < Len(true_grads_np)
    /\ LET p == Printed(var_list[k_v + 1], eprop_grads_np[k_v + 1], true_grads_np[k_v + 1])
       IN  /\ report' = Append(report, p)
           /\ outcome' = IF Raises(p.correct) THEN "ValueError" ELSE "running"
           /\ k_v' = IF Raises(p.correct) THEN k_v ELSE k_v + 1
    /\ UNCHANGED <<var_list, eprop_grads_np, true_grads_np, lifVars, seqVars, spikeVars>>

\* eprop_grads_np[k_v] or true_grads_np[k_v] is past the end of its list
IndexOutOfRange ==
    /\ outcome = "running"
    /\ k_v < LoopLength
    /\ k_v >= Len(eprop_grads_np) \/ k_v >= Len(true_grads_np)
    /\ outcome' = "IndexError"
    /\ UNCHANGED <<var_list, eprop_grads_np, true_grads_np, k_v, report,
                   lifVars, seqVars, spikeVars>>

\* the loop is exhausted and the function returns
Return ==
    /\ outcome = "running"
    /\ k_v >= LoopLength
    /\ outcome' = "returned"
    /\ UNCHANGED <<var_list, eprop_grads_np, true_grads_np, k_v, report,
                   lifVars, seqVars, spikeVars>>

NextCheck == Compare \/ IndexOutOfRange \/ Return

SpecCheck == InitCheck /\ [][NextCheck]_vars

EqualLengths ==
    Len(eprop_grads_np) = Len(var_list) /\ Len(true_grads_np) = Len(var_list)

\* every entry of variable k's two gradients differs by less than 1e-4
AllWithin(k) ==
    \A i \in 1..2, j \in 1..2 :
        LET d == RSub(eprop_grads_np[k][i][j], true_grads_np[k][i][j])
        IN  RLess(d, Tol) /\ RLess(RSub(Zero, d), Tol)

\* C3 as stated: with well-formed lists, the failure is signalled only after the
\* last variable has been checked and reported.
C3_NoShortCircuit ==
    (EqualLengths /\ outcome = "ValueError") => Len(report) = Len(var_list)

\* C3 as amended: check_gradients stops at the first variable that mismatches.
\* That variable's report is printed, ValueError is raised at once, and no later
\* variable is compared or reported; only when no variable mismatches are all of
\* them reported before the function returns.
C3_StopsAtFirstMismatch ==
    /\ \A k \in 1..Len(report) :
          ~report[k].correct => (k = Len(report) /\ outcome = "ValueError")
    /\ outcome = "ValueError" =>
          /\ Len(report) >= 1
          /\ ~report[Len(report)].correct
          /\ ~AllWithin(Len(report))
          /\ \A k \in 1..(Len(report) - 1) : AllWithin(k)
    /\ outcome = "returned" =>
          /\ Len(report) = Len(var_list)
          /\ \A k \in 1..Len(report) : report[k].correct

\* ValueError raised at the first variable although a later variable, never
\* reported, mismatches too
C3_Witness ==
    /\ EqualLengths
    /\ outcome = "ValueError"
    /\ Len(report) = 1
    /\ Len(var_list) >= 2
    /\ ~AllWithin(2)

\* C8: a compared variable is reported correct exactly when every entry differs
\* by less than 1e-4; identical lists make every variable pass; a variable whose
\* gradients differ at mismatching entries is reported wrong with exactly those
\* entries (up to five) as its mismatch indices, so a single entry off by 2e-4
\* is among them.
C8_Tolerance ==
    /\ \A k \in 1..Len(report) :
          /\ report[k].correct <=> AllWithin(k)
          /\ ~report[k].correct =>
                \A i \in 1..2, j \in 1..2 :
                    (\E n \in 1..Len(report[k].mismatch) :
                        report[k].mismatch[n] = <<i - 1, j - 1>>)
                    <=> ~(LET d == RSub(eprop_grads_np[k][i][j], true_grads_np[k][i][j])
                          IN  RLess(d, Tol) /\ RLess(RSub(Zero, d), Tol))
    /\ (EqualLengths /\ eprop_grads_np = true_grads_np) =>
          /\ outcome \in {"running", "returned"}
          /\ \A k \in 1..Len(report) : report[k].correct
          /\ outcome = "returned" => Len(report) = Len(var_list)

\* a variable whose gradients differ by exactly 2e-4 at entry (1, 1) and nowhere
\* else is reported wrong with that entry as its mismatch index
C8_Witness ==
    /\ Len(report) >= 1
    /\ eprop_grads_np[Len(report)] = G(0, 0, 0, 4)
    /\ true_grads_np[Len(report)] = G(0, 0, 0, 0)
    /\ ~report[Len(report)].correct
    /\ report[Len(report)].mismatch = <<(<<1, 1>>)>>
    /\ report[Len(report)].diff_vals = <<R(2, 10000)>>

\* C9 as stated: lists of unequal length are refused before any variable is
\* compared, and nothing of them is ignored.
C9_LengthMismatchSignalledFirst ==
    ~EqualLengths => (report = <<>> /\ outcome \in {"running", "IndexError"})

\* C9 as amended: check_gradients does not compare the lengths. It walks
\* var_list; gradients beyond its length are never read; a gradient list
\* shorter than var_list raises IndexError only when the loop reaches the first
\* missing index, after every earlier variable has been compared and reported
\* (unless one of them mismatched and raised ValueError first).
C9_LengthsNeverCompared ==
    /\ outcome = "IndexError" =>
          /\ Len(report) = Min(Len(eprop_grads_np), Len(true_grads_np))
          /\ Len(report) < Len(var_list)
          /\ \A k \in 1..Len(report) : report[k].correct
    /\ (Len(var_list) <= Len(eprop_grads_np) /\ Len(var_list) <= Len(true_grads_np))
          => outcome # "IndexError"
    /\ outcome = "returned" =>
          /\ Len(report) = Len(var_list)
          /\ Len(var_list) <= Len(eprop_grads_np)
          /\ Len(var_list) <= Len(true_grads_np)

\* IndexError raised only after a variable had been compared and reported
C9_Witness ==
    /\ outcome = "IndexError"
    /\ Len(report) >= 1

====
